---- MODULE Spec2Model ----
(***************************************************************************)
(* Model of the 10/10/20 news pipeline of updater/main.py                  *)
(* (build_101020_from_rss and its helpers) and of the configuration-driven *)
(* pipeline of updater/feeds.py (fetch_all, _parse_one, _classify).        *)
(*                                                                         *)
(* A Python str is modelled as a sequence of one-character strings, so     *)
(* that lower(), strip(), substring tests and the regular expressions are  *)
(* computed character by character.                                        *)
(***************************************************************************)
EXTENDS Integers, Sequences, FiniteSets, TLC

VARIABLES
  feeds,     \* what feedparser.parse(url) yields for each url of RSS_SOURCES_101020
  now_ts,    \* int(time.time()) at the call
  limits,    \* the arguments <<max_macro, max_housing, max_notables>>
  pc,        \* position in build_101020_from_rss
  src,       \* index of the next url of the fetch loop
  failed,    \* indices of the urls whose try block ended in the except clause
  pool,      \* the list pool
  seen,      \* the dict seen, in insertion order
  items,     \* the list items
  out,       \* the dict out
  cfg,       \* updater/feeds.py: the configuration passed to fetch_all
  fpc,       \* updater/feeds.py: position in fetch_all
  job,       \* updater/feeds.py: index of the next (section, url) of the loops
  buckets    \* updater/feeds.py: the dict buckets of fetch_all

\* the state of fetch_all (updater/feeds.py)
fvars == <<cfg, fpc, job, buckets>>

vars == <<feeds, now_ts, limits, pc, src, failed, pool, seen, items, out,
          cfg, fpc, job, buckets>>

----------------------------------------------------------------------------
(* Python values *)

\* An optional int is a sequence of at most one element: None is <<>>.
None == <<>>

Min(a, b) == IF a < b THEN a ELSE b

Take(s, n) == SubSeq(s, 1, Min(n, Len(s)))          \* s[:n] for n >= 0

----------------------------------------------------------------------------
(* str methods *)

UpperCase == <<"A","B","C","D","E","F","G","H","I","J","K","L","M",
               "N","O","P","Q","R","S","T","U","V","W","X","Y","Z">>
LowerCase == <<"a","b","c","d","e","f","g","h","i","j","k","l","m",
               "n","o","p","q","r","s","t","u","v","w","x","y","z">>

lower_char(c) ==
  IF \E i \in 1..Len(UpperCase) : UpperCase[i] = c
  THEN LowerCase[CHOOSE i \in 1..Len(UpperCase) : UpperCase[i] = c]
  ELSE c

\* str.lower()
lower(s) == [i \in 1..Len(s) |-> lower_char(s[i])]

\* the characters str.strip() removes and \s matches
Whitespace == {" ", "\t", "\n"}

RECURSIVE lstrip(_)
lstrip(s) ==
  IF s # <<>> /\ Head(s) \in Whitespace THEN lstrip(Tail(s)) ELSE s

RECURSIVE rstrip(_)
rstrip(s) ==
  IF s # <<>> /\ s[Len(s)] \in Whitespace THEN rstrip(SubSeq(s, 1, Len(s) - 1)) ELSE s

\* str.strip()
strip(s) == lstrip(rstrip(s))

\* k in s, for two strs
Contains(k, s) ==
  \E i \in 1..(Len(s) - Len(k) + 1) : SubSeq(s, i, i + Len(k) - 1) = k

\* sep.join(parts)
RECURSIVE Join(_, _)
Join(parts, sep) ==
  IF parts = <<>> THEN <<>>
  ELSE IF Len(parts) = 1 THEN parts[1]
  ELSE parts[1] \o sep \o Join(Tail(parts), sep)

----------------------------------------------------------------------------
(* Configuration of the 10/10/20 feed *)

\* len(RSS_SOURCES_101020)
NumSources == 3

KEYWORDS_101020_macro ==
  << <<"f","e","d">>,
     <<"f","o","m","c">>,
     <<"i","n","f","l","a","t","i","o","n">>,
     <<"c","p","i">>,
     <<"p","c","e">>,
     <<"j","o","b","s">>,
     <<"p","a","y","r","o","l","l">>,
     <<"u","n","e","m","p","l","o","y","m","e","n","t">>,
     <<"t","r","e","a","s","u","r","y">>,
     <<"y","i","e","l","d">>,
     <<"r","a","t","e","s">>,
     <<"m","o","r","t","g","a","g","e"," ","r","a","t","e">>,
     <<"m","o","r","t","g","a","g","e"," ","r","a","t","e","s">>,
     <<"b","o","n","d">>,
     <<"c","u","r","v","e">>,
     <<"c","o","r","e">>,
     <<"h","e","a","d","l","i","n","e">>,
     <<"p","o","w","e","l","l">>,
     <<"e","c","o","n","o","m","i","c">>,
     <<"g","d","p">> >>

KEYWORDS_101020_housing ==
  << <<"h","o","u","s","i","n","g">>,
     <<"p","e","r","m","i","t">>,
     <<"p","e","r","m","i","t","s">>,
     <<"s","t","a","r","t","s">>,
     <<"c","o","m","p","l","e","t","i","o","n","s">>,
     <<"h","o","m","e"," ","s","a","l","e","s">>,
     <<"h","o","m","e"," ","p","r","i","c","e","s">>,
     <<"m","o","r","t","g","a","g","e">>,
     <<"i","n","v","e","n","t","o","r","y">>,
     <<"l","i","s","t","i","n","g","s">>,
     <<"n","e","w"," ","l","i","s","t","i","n","g","s">>,
     <<"d","o","m">>,
     <<"d","a","y","s"," ","o","n"," ","m","a","r","k","e","t">>,
     <<"p","e","n","d","i","n","g">>,
     <<"c","l","o","s","e","d"," ","s","a","l","e","s">>,
     <<"b","u","i","l","d","e","r">>,
     <<"n","a","h","b">>,
     <<"z","i","l","l","o","w">>,
     <<"r","e","d","f","i","n">>,
     <<"r","e","a","l","t","o","r",".","c","o","m">>,
     <<"r","e","n","t">> >>

DAYS_WINDOW_101020 == 7

\* feed.entries[:25]
MaxEntriesPerFeed == 25

\* out[:6] of _extract_numbers
MaxNumbers == 6

----------------------------------------------------------------------------
(* _clean *)

\* index of the first ">" of s at or after position i, 0 if there is none
RECURSIVE FirstClose(_, _)
FirstClose(s, i) ==
  IF i > Len(s) THEN 0
  ELSE IF s[i] = ">" THEN i
  ELSE FirstClose(s, i + 1)

\* re.sub(r"<[^>]+>", " ", s): a "<", one or more characters other than ">",
\* then ">"; "<>" is no tag
RECURSIVE StripTags(_)
StripTags(s) ==
  IF s = <<>> THEN <<>>
  ELSE LET j == FirstClose(s, 2) IN
    IF Head(s) = "<" /\ j >= 3
    THEN <<" ">> \o StripTags(SubSeq(s, j + 1, Len(s)))
    ELSE <<Head(s)>> \o StripTags(Tail(s))

\* The character references html.unescape resolves in this model: the names
\* amp, lt and gt, each with or without its ";" (all six are keys of
\* html.entities.html5).  Texts of the model hold "&" in these forms only.
EntityNames == << <<"a","m","p">>, <<"l","t">>, <<"g","t">> >>
EntityChars == << "&", "<", ">" >>

\* the characters that end the name of a character reference:
\* [^\t\n\f <&#;] of html.unescape's pattern
EntityStop == {"\t", "\n", " ", "<", "&", "#", ";"}

\* length of the run of name characters of s from position i (at most 32)
RECURSIVE NameRun(_, _, _)
NameRun(s, i, n) ==
  IF i > Len(s) \/ n = 32 \/ s[i] \in EntityStop THEN n
  ELSE NameRun(s, i + 1, n + 1)

\* html.unescape's replace_charref on the text m that follows "&": the whole
\* of m when it is a key, otherwise its longest proper prefix of two or more
\* characters that is a key followed by the rest, otherwise "&" and m
ReplaceCharref(m) ==
  LET IsKey(t) ==
        \E e \in 1..Len(EntityNames) :
           t = EntityNames[e] \/ t = EntityNames[e] \o <<";">>
      CharOf(t) ==
        EntityChars[CHOOSE e \in 1..Len(EntityNames) :
                      t = EntityNames[e] \/ t = EntityNames[e] \o <<";">>]
      Prefixes == {x \in 2..(Len(m) - 1) : IsKey(SubSeq(m, 1, x))}
  IN IF IsKey(m) THEN <<CharOf(m)>>
     ELSE IF Prefixes # {}
     THEN LET x == CHOOSE p \in Prefixes : \A q \in Prefixes : q <= p
          IN <<CharOf(SubSeq(m, 1, x))>> \o SubSeq(m, x + 1, Len(m))
     ELSE <<"&">> \o m

\* html.unescape(s)
RECURSIVE html_unescape(_)
html_unescape(s) ==
  IF s = <<>> THEN <<>>
  ELSE IF Head(s) # "&" THEN <<Head(s)>> \o html_unescape(Tail(s))
  ELSE LET n == NameRun(s, 2, 0)
           semi == IF n > 0 /\ n + 2 <= Len(s) /\ s[n + 2] = ";" THEN 1 ELSE 0
       IN IF n = 0 THEN <<"&">> \o html_unescape(Tail(s))
          ELSE ReplaceCharref(SubSeq(s, 2, n + 1 + semi))
                 \o html_unescape(SubSeq(s, n + 2 + semi, Len(s)))

\* re.sub(r"\s+", " ", s)
RECURSIVE CollapseSpace(_)
CollapseSpace(s) ==
  IF s = <<>> THEN <<>>
  ELSE IF Head(s) \in Whitespace
  THEN <<" ">> \o CollapseSpace(lstrip(s))
  ELSE <<Head(s)>> \o CollapseSpace(Tail(s))

\* _clean(txt)
_clean(txt) ==
  IF txt = <<>> THEN <<>>
  ELSE strip(CollapseSpace(html_unescape(StripTags(txt))))

----------------------------------------------------------------------------
(* _NUM_PAT and _extract_numbers *)

Digits == {"0", "1", "2", "3", "4", "5", "6", "7", "8", "9"}

\* (?:billion|million|thousand|bn|mn|k), tried in this order, re.I
NumSuffixes ==
  << <<"b","i","l","l","i","o","n">>, <<"m","i","l","l","i","o","n">>,
     <<"t","h","o","u","s","a","n","d">>, <<"b","n">>, <<"m","n">>, <<"k">> >>

\* end of the run [\d,\.]* of s that starts at position i (first position after it)
RECURSIVE NumRunEnd(_, _)
NumRunEnd(s, i) ==
  IF i <= Len(s) /\ s[i] \in (Digits \cup {",", "."})
  THEN NumRunEnd(s, i + 1)
  ELSE i

\* length of the suffix of NumSuffixes matched at position i of s, ignoring
\* case; 0 when none matches (the suffix is optional)
SuffixLen(s, i) ==
  LET Hit == {n \in 1..Len(NumSuffixes) :
                /\ i + Len(NumSuffixes[n]) - 1 <= Len(s)
                /\ lower(SubSeq(s, i, i + Len(NumSuffixes[n]) - 1)) = NumSuffixes[n]}
  IN IF Hit = {} THEN 0
     ELSE Len(NumSuffixes[CHOOSE n \in Hit : \A m \in Hit : n <= m])

\* _NUM_PAT matched at position i of s: the first position after the match,
\* 0 when there is no match at i.  This is the first alternative,
\*   \$?\d[\d,\.]*\s?(?:billion|million|thousand|bn|mn|k)?
\* Every part after the digit is optional and greedy, so the match never
\* backtracks.  The alternatives after it (\d{1,3}(?:\.\d+)?%, \d+\s?bp,
\* \$\d[\d,\.]*) start with a digit or with "$" and a digit, where the first
\* alternative already matches: the regex engine never selects them.
NumMatchEnd(s, i) ==
  LET d == IF s[i] = "$" THEN i + 1 ELSE i
  IN IF d > Len(s) \/ s[d] \notin Digits THEN 0
     ELSE LET r == NumRunEnd(s, d + 1)
              w == IF r <= Len(s) /\ s[r] \in Whitespace THEN r + 1 ELSE r
          IN w + SuffixLen(s, w)

\* _NUM_PAT.findall(s) from position i: the matched texts, left to right,
\* not overlapping
RECURSIVE FindAllFrom(_, _)
FindAllFrom(s, i) ==
  IF i > Len(s) THEN <<>>
  ELSE LET e == NumMatchEnd(s, i)
       IN IF e = 0 THEN FindAllFrom(s, i + 1)
          ELSE <<SubSeq(s, i, e - 1)>> \o FindAllFrom(s, e)

NumFindAll(s) == FindAllFrom(s, 1)

\* the loop of _extract_numbers over the matches ms: acc is the list out,
\* whose lower-cased elements are the set seen
RECURSIVE NumLoop(_, _)
NumLoop(ms, acc) ==
  IF ms = <<>> THEN acc
  ELSE LET t == strip(Head(ms))
           key == lower(t)
       IN IF \E j \in 1..Len(acc) : lower(acc[j]) = key
          THEN NumLoop(Tail(ms), acc)
          ELSE NumLoop(Tail(ms), Append(acc, t))

\* the list out without its [:6]
NumTokensUncapped(text) == NumLoop(NumFindAll(_clean(text)), <<>>)

\* out[:6] of _extract_numbers(text)
NumTokens(text) == Take(NumLoop(NumFindAll(_clean(text)), <<>>), MaxNumbers)

\* _extract_numbers(text)
_extract_numbers(text) == Join(NumTokens(text), <<",", " ">>)

----------------------------------------------------------------------------
(* Feed entries                                                            *)
(*                                                                         *)
(* An entry e of feed.entries is a record.  A text key (title, link,       *)
(* summary, description) holds <<>> when e lacks the key and <<text>> when *)
(* it has it; content holds the .value of each element of e.content (<<>>  *)
(* when the key is missing or the list is empty).  A time key              *)
(* (published_parsed, updated_parsed, created_parsed) holds <<>> when      *)
(* missing or None and <<st>> otherwise, st a struct_time:                 *)
(* [epoch |-> the seconds time.mktime gives for it, valid |-> whether      *)
(* time.mktime accepts it (it raises OverflowError or ValueError on a      *)
(* date the platform cannot represent)].                                   *)

\* (e.get(k) or "")
GetText(e, k) == IF e[k] = <<>> THEN <<>> ELSE e[k][1]

\* time.mktime(st), for a st it accepts
mktime(st) == st.epoch

\* the keys _ts_from_entry looks at, in its order
TsKeys == <<"published_parsed", "updated_parsed">>

\* the first key of TsKeys that e carries, 0 when it carries none
FirstTsKey(e) ==
  LET Has == {n \in 1..Len(TsKeys) : e[TsKeys[n]] # <<>>}
  IN IF Has = {} THEN 0 ELSE CHOOSE n \in Has : \A m \in Has : n <= m

\* _ts_from_entry(e) raises: time.mktime rejects the struct_time it picked
TsRaises(e) ==
  LET n == FirstTsKey(e) IN n # 0 /\ ~e[TsKeys[n]][1].valid

\* _ts_from_entry(e), when it returns: <<ts>>, or None
_ts_from_entry(e) ==
  LET n == FirstTsKey(e)
  IN IF n = 0 THEN None ELSE <<mktime(e[TsKeys[n]][1])>>

\* _entry_body(e)
_entry_body(e) ==
  IF e.summary # <<>> THEN e.summary[1]
  ELSE IF e.description # <<>> THEN e.description[1]
  ELSE IF e.content # <<>> THEN e.content[1]
  ELSE <<>>

----------------------------------------------------------------------------
(* build_101020_from_rss: the stages *)

\* cutoff = now_ts - DAYS_WINDOW_101020*24*3600
Cutoff(now) == now - DAYS_WINDOW_101020 * 24 * 3600

\* the freshness test of the fetch loop: "ts is None or ts < cutoff" skips
Stale(ts, cutoff) == ts = None \/ ts[1] < cutoff

\* The body of "try:" after feedparser.parse returned, over the entries es
\* still to read: p is the pool so far.  raised tells that an exception
\* left the loop (caught by "except Exception: continue"); the entries
\* appended before it stay in the pool.
RECURSIVE ReadEntries(_, _, _)
ReadEntries(es, p, cutoff) ==
  IF es = <<>> THEN [pool |-> p, raised |-> FALSE]
  ELSE LET e == Head(es)
           title == strip(GetText(e, "title"))
           link == strip(GetText(e, "link"))
       IN IF title = <<>> \/ link = <<>> THEN ReadEntries(Tail(es), p, cutoff)
          ELSE IF TsRaises(e) THEN [pool |-> p, raised |-> TRUE]
          ELSE IF Stale(_ts_from_entry(e), cutoff) THEN ReadEntries(Tail(es), p, cutoff)
          ELSE ReadEntries(Tail(es),
                 Append(p, [ts |-> _ts_from_entry(e)[1], title |-> title,
                            link |-> link, e |-> e]),
                 cutoff)

\* One iteration of "for url in RSS_SOURCES_101020" on the source f:
\* feedparser.parse raises (f.raises), or its first 25 entries are read
FetchOne(f, p, cutoff) ==
  IF f.raises THEN [pool |-> p, raised |-> TRUE]
  ELSE ReadEntries(Take(f.entries, MaxEntriesPerFeed), p, cutoff)

\* a de-dup key that keeps the case of the title
DedupKeyCaseSensitive(title) == title

\* k = title.lower()
DedupKey(title) == lower(title)

\* ">=" for ">": an entry as new as the one seen replaces it
ReplacesOrTies(ts, old) == ts >= old

\* the first entry seen under a key is never replaced
ReplacesNever(ts, old) == FALSE

\* "ts > seen[k][0]": the entry replaces the one seen under its key
Replaces(ts, old) == ts > old

\* The de-dup loop over the pool p.  The dict seen is the sequence sn of its
\* [k, v] pairs in insertion order (assigning to a key the dict holds keeps
\* the key's place).
RECURSIVE DedupLoop(_, _)
DedupLoop(p, sn) ==
  IF p = <<>> THEN sn
  ELSE LET x == Head(p)
           k == DedupKey(x.title)
           At == {j \in 1..Len(sn) : sn[j].k = k}
       IN IF At = {} THEN DedupLoop(Tail(p), Append(sn, [k |-> k, v |-> x]))
          ELSE LET j == CHOOSE i \in At : TRUE
               IN IF Replaces(x.ts, sn[j].v.ts)
                  THEN DedupLoop(Tail(p), [sn EXCEPT ![j].v = x])
                  ELSE DedupLoop(Tail(p), sn)

\* seen.values()
Values(sn) == [j \in 1..Len(sn) |-> sn[j].v]

\* the order of a sort without reverse=True
GoesBeforeOldestFirst(x, y) == x.ts < y.ts

\* the place of x in a list sorted by sorted(..., key=ts, reverse=True):
\* before every element with a smaller ts, after those with a greater or
\* equal one (the sort is stable)
GoesBefore(x, y) == x.ts > y.ts

InsertSorted(s, x) ==
  LET n == Cardinality({j \in 1..Len(s) : ~GoesBefore(x, s[j])})
  IN SubSeq(s, 1, n) \o <<x>> \o SubSeq(s, n + 1, Len(s))

\* sorted(vs, key=lambda x: x[0], reverse=True)
RECURSIVE SortedNewestFirst(_)
SortedNewestFirst(vs) ==
  IF vs = <<>> THEN <<>>
  ELSE InsertSorted(SortedNewestFirst(SubSeq(vs, 1, Len(vs) - 1)), vs[Len(vs)])

\* any(k in tl or k in body_lc for k in KEYWORDS_101020[bucket])
AnyKeyword(kws, tl, body_lc) ==
  \E n \in 1..Len(kws) : Contains(kws[n], tl) \/ Contains(kws[n], body_lc)

\* the housing test before the macro test
ClassifyHousingFirst(tl, body_lc) ==
  IF AnyKeyword(KEYWORDS_101020_housing, tl, body_lc) THEN "housing"
  ELSE IF AnyKeyword(KEYWORDS_101020_macro, tl, body_lc) THEN "macro"
  ELSE "notables"

\* the if / elif / else of the classify loop
Classify(tl, body_lc) ==
  IF AnyKeyword(KEYWORDS_101020_macro, tl, body_lc) THEN "macro"
  ELSE IF AnyKeyword(KEYWORDS_101020_housing, tl, body_lc) THEN "housing"
  ELSE "notables"

\* the bucket of the item x = (ts, title, link, e)
BucketOf(x) == Classify(lower(x.title), lower(_clean(_entry_body(x.e))))

\* "body_raw or title"
BodyOrTitle(x) == IF _entry_body(x.e) # <<>> THEN _entry_body(x.e) ELSE x.title

\* The dict appended to out[bucket].  Its fields what, why, market and
\* justified are texts derived from (title, body, link) alone by
\* _first_sentence, _infer_why_market and _domain; nothing reads them back
\* and they are left out.
Structure(x) ==
  [title |-> x.title, url |-> x.link, numbers |-> _extract_numbers(BodyOrTitle(x))]

\* the classify loop over the items its, appending to the dict o
RECURSIVE ClassifyLoop(_, _)
ClassifyLoop(its, o) ==
  IF its = <<>> THEN o
  ELSE LET x == Head(its)
           b == BucketOf(x)
       IN ClassifyLoop(Tail(its), [o EXCEPT ![b] = Append(@, Structure(x))])

\* out[bucket][:max]
Trimmed(o, lim) ==
  [macro |-> Take(o.macro, lim[1]),
   housing |-> Take(o.housing, lim[2]),
   notables |-> Take(o.notables, lim[3])]

EmptyOut == [macro |-> <<>>, housing |-> <<>>, notables |-> <<>>]

\* the pool after the fetch loop has visited the sources of fs in the order
\* given by the sequence of indices order
RECURSIVE PoolOf(_, _, _)
PoolOf(fs, order, cutoff) ==
  IF order = <<>> THEN <<>>
  ELSE FetchOne(fs[order[Len(order)]],
                PoolOf(fs, SubSeq(order, 1, Len(order) - 1), cutoff),
                cutoff).pool

\* what build_101020_from_rss returns when its loop visits the sources of
\* fs in the given order
Build(fs, order, now, lim) ==
  Trimmed(ClassifyLoop(SortedNewestFirst(Values(
            DedupLoop(PoolOf(fs, order, Cutoff(now)), <<>>))), EmptyOut), lim)

----------------------------------------------------------------------------
(* build_101020_from_rss: the run *)

\* fetch_all of updater/feeds.py is not running
FeedsIdle ==
  /\ cfg = <<>>
  /\ fpc = "off"
  /\ job = 0
  /\ buckets = EmptyOut

\* now_ts, cutoff, pool = [], out = {...}; seen and items do not exist yet
Start(fs, now, lim) ==
  /\ FeedsIdle
  /\ feeds = fs
  /\ now_ts = now
  /\ limits = lim
  /\ pc = "fetch"
  /\ src = 1
  /\ failed = {}
  /\ pool = <<>>
  /\ seen = <<>>
  /\ items = <<>>
  /\ out = EmptyOut

\* one iteration of the fetch loop
Fetch ==
  /\ pc = "fetch"
  /\ LET r == FetchOne(feeds[src], pool, Cutoff(now_ts))
     IN /\ pool' = r.pool
        /\ failed' = IF r.raised THEN failed \cup {src} ELSE failed
  /\ src' = src + 1
  /\ pc' = IF src = NumSources THEN "dedup" ELSE "fetch"
  /\ UNCHANGED <<feeds, now_ts, limits, seen, items, out>>
  /\ UNCHANGED fvars

\* de-dup by lowercase title, keep newest
Dedup ==
  /\ pc = "dedup"
  /\ seen' = DedupLoop(pool, <<>>)
  /\ pc' = "sort"
  /\ UNCHANGED <<feeds, now_ts, limits, src, failed, pool, items, out>>
  /\ UNCHANGED fvars

\* newest first
Sort ==
  /\ pc = "sort"
  /\ items' = SortedNewestFirst(Values(seen))
  /\ pc' = "classify"
  /\ UNCHANGED <<feeds, now_ts, limits, src, failed, pool, seen, out>>
  /\ UNCHANGED fvars

\* classify + structure
ClassifyItems ==
  /\ pc = "classify"
  /\ out' = ClassifyLoop(items, out)
  /\ pc' = "trim"
  /\ UNCHANGED <<feeds, now_ts, limits, src, failed, pool, seen, items>>
  /\ UNCHANGED fvars

\* trim to 10/10/20 and return out
Trim ==
  /\ pc = "trim"
  /\ out' = Trimmed(out, limits)
  /\ pc' = "done"
  /\ UNCHANGED <<feeds, now_ts, limits, src, failed, pool, seen, items>>
  /\ UNCHANGED fvars

Next == Fetch \/ Dedup \/ Sort \/ ClassifyItems \/ Trim

----------------------------------------------------------------------------
(* Inputs *)

\* the second at which the run starts
Clock == 2000000

\* the sequences over S of length at most n
SeqsUpTo(S, n) == UNION {[1..k -> S] : k \in 0..n}

\* a struct_time that time.mktime turns into t, and one it rejects
St(t) == <<[epoch |-> t, valid |-> TRUE]>>
BadSt == <<[epoch |-> 0, valid |-> FALSE]>>

\* an entry with a title, a link, an optional summary and its three times
Entry(title, link, summary, pub, upd, cre) ==
  [title |-> <<title>>, link |-> <<link>>, summary |-> summary,
   description |-> <<>>, content |-> <<>>,
   published_parsed |-> pub, updated_parsed |-> upd, created_parsed |-> cre]

\* three sources that parse: the entries es cut at c1 and c2; then
\* feedparser.parse raises for the sources of R
Sources(es, c1, c2, R) ==
  LET parts == <<SubSeq(es, 1, c1), SubSeq(es, c1 + 1, c2), SubSeq(es, c2 + 1, Len(es))>>
  IN [i \in 1..NumSources |->
        IF i \in R THEN [raises |-> TRUE, entries |-> <<>>]
        ELSE [raises |-> FALSE, entries |-> parts[i]]]

DefaultLimits == <<10, 10, 20>>

\* Several entries over the three sources: duplicates of one headline in
\* different case and from different times, other headlines, and an entry
\* whose date time.mktime rejects; any source may fail to parse.
MaxTotal == 3

EntriesMain(now) ==
  { \* "Fed", published now
    Entry(<<"F","e","d">>, <<"h","t","t","p",":","/","/","a">>, <<>>, St(now), <<>>, <<>>),
    \* "FED " (trailing blank), published now
    Entry(<<"F","E","D"," ">>, <<"h","t","t","p",":","/","/","b">>, <<>>, St(now), <<>>, <<>>),
    \* "fed", updated at the cutoff
    Entry(<<"f","e","d">>, <<"h","t","t","p",":","/","/","c">>, <<>>, <<>>, St(Cutoff(now)), <<>>),
    \* "Zoo", published now
    Entry(<<"Z","o","o">>, <<"h","t","t","p",":","/","/","d">>, <<>>, St(now), <<>>, <<>>),
    \* "Ant", published a second ago
    Entry(<<"A","n","t">>, <<"h","t","t","p",":","/","/","e">>, <<>>, St(now - 1), <<>>, <<>>),
    \* "Zoo", with a published date time.mktime rejects
    Entry(<<"Z","o","o">>, <<"h","t","t","p",":","/","/","f">>, <<>>, BadSt, <<>>, <<>>) }

\* the ways to cut a list of n entries in three: <<c1, c2>>, c1 <= c2 <= n
Cuts(n) == {c \in (0..n) \X (0..n) : c[1] <= c[2]}

\* the sources of a cut that hold no entry: feedparser.parse may have
\* raised for any of them
Empty(es, c) ==
  {i \in 1..NumSources : Sources(es, c[1], c[2], {})[i].entries = <<>>}

LimitsMain == {DefaultLimits, <<1, 1, 1>>}

Init ==
  \E es \in SeqsUpTo(EntriesMain(Clock), MaxTotal) :
    \E c \in Cuts(Len(es)) :
      \E R \in SUBSET Empty(es, c), lim \in LimitsMain :
        Start(Sources(es, c[1], c[2], R), Clock, lim)

Spec == Init /\ [][Next]_vars

----------------------------------------------------------------------------
(* One entry in the first source, the other sources empty: every           *)
(* combination of a title, a summary and the three times of an entry, and  *)
(* entries without a link.                                                 *)

\* a time key: missing, one second too old, exactly at the cutoff, now,
\* one second ahead of now, or a date time.mktime rejects
TimesOf(now) ==
  {<<>>, St(Cutoff(now) - 1), St(Cutoff(now)), St(now), St(now + 1), BadSt}

TitlesWide ==
  { <<"J","o","b","s">>,                                   \* a macro keyword
    <<"R","e","n","t">>,                                   \* a housing keyword
    \* "Mortgage rates": macro and housing keywords
    <<"M","o","r","t","g","a","g","e"," ","r","a","t","e","s">>,
    <<"Z","o","o">>,                                        \* no keyword
    \* "Builder Permits Rise 5% in Tampa"
    <<"B","u","i","l","d","e","r"," ","P","e","r","m","i","t","s"," ","R","i","s","e"," ","5","%"," ","i","n"," ","T","a","m","p","a">>,
    <<>>,                                                   \* ""
    <<" ">> }

\* a summary: missing, empty, or a text with markup
SummariesWide ==
  { <<>>,
    << <<>> >>,
    \* "<b>CPI</b> rose 3.1% in May"
    << <<"<","b",">","C","P","I","<","/","b",">"," ","r","o","s","e"," ","3",".","1","%"," ","i","n"," ","M","a","y">> >>,
    \* "Home prices &amp; rent"
    << <<"H","o","m","e"," ","p","r","i","c","e","s"," ","&","a","m","p",";"," ","r","e","n","t">> >> }

\* an entry without a summary, with a description or a content list
WithBody(e, description, content) ==
  [e EXCEPT !.description = description, !.content = content]

EntriesWide(now) ==
  { Entry(t, <<"h","t","t","p",":","/","/","a">>, s, pub, upd, cre) :
      t \in TitlesWide, s \in SummariesWide,
      pub \in TimesOf(now), upd \in TimesOf(now), cre \in TimesOf(now) }
  \cup
  { Entry(t, l, <<>>, St(now), <<>>, <<>>) : t \in TitlesWide, l \in {<<>>, <<" ">>} }
  \cup
  { WithBody(Entry(<<"Z","o","o">>, <<"h","t","t","p",":","/","/","a">>, <<>>, St(now), <<>>, <<>>), d, c) :
      d \in {<<>>, << <<"r","e","n","t"," ","u","p"," ","2","%">> >>},
      c \in {<<>>, << <<"F","e","d","<","b","r","/",">","c","u","t","s">> >>, << <<>>, <<"j","o","b","s">> >>} }

InitEntry ==
  \E e \in EntriesWide(Clock) :
     Start(Sources(<<e>>, 1, 1, {}), Clock, DefaultLimits)

SpecEntry == InitEntry /\ [][Next]_vars

----------------------------------------------------------------------------
(* One entry whose summary, or whose title when it has no summary, is a    *)
(* text with numbers: every short text over a few characters, and longer   *)
(* texts with more than six different numbers.                             *)

MaxTextLen == 3

NumAlphabet == {"1", "2", " ", "k", "K", "$", ","}

NumTexts ==
  SeqsUpTo(NumAlphabet, MaxTextLen)
  \cup
  { \* "1 2 3 4 5 6 7 8"
    <<"1"," ","2"," ","3"," ","4"," ","5"," ","6"," ","7"," ","8">>,
    \* "1k 1K 2 1k 3 4 2 5 6 7 8"
    <<"1","k"," ","1","K"," ","2"," ","1","k"," ","3"," ","4"," ","2"," ","5"," ","6"," ","7"," ","8">>,
    \* "$5 million, 5 Million and 5 MILLION"
    <<"$","5"," ","m","i","l","l","i","o","n",","," ","5"," ","M","i","l","l","i","o","n"," ","a","n","d"," ","5"," ","M","I","L","L","I","O","N">>,
    \* "up 3.1%, 25 bp, $1,000.50 or <b>2bn</b>"
    <<"u","p"," ","3",".","1","%",","," ","2","5"," ","b","p",","," ","$","1",",","0","0","0",".","5","0"," ","o","r"," ","<","b",">","2","b","n","<","/","b",">">>,
    \* "costs $5, known"
    <<"c","o","s","t","s"," ","$","5",","," ","k","n","o","w","n">>,
    \* "no figures &amp; no dates"
    <<"n","o"," ","f","i","g","u","r","e","s"," ","&","a","m","p",";"," ","n","o"," ","d","a","t","e","s">> }

EntriesNum(now) ==
  { Entry(<<"Z","o","o">>, <<"h","t","t","p",":","/","/","a">>, <<t>>, St(now), <<>>, <<>>) : t \in NumTexts }
  \cup
  { Entry(t, <<"h","t","t","p",":","/","/","a">>, <<>>, St(now), <<>>, <<>>) : t \in NumTexts }

InitNumbers ==
  \E e \in EntriesNum(Clock) :
     Start(Sources(<<e>>, 1, 1, {}), Clock, DefaultLimits)

SpecNumbers == InitNumbers /\ [][Next]_vars

----------------------------------------------------------------------------
(* Properties *)

\* a title trimmed and lower-cased
NormTitle(title) == lower(strip(title))

\* the titles of the pool, trimmed and lower-cased
PoolTitles == [j \in 1..Len(pool) |-> NormTitle(pool[j].title)]

\* the positions of the pool whose title equals that of position i after
\* trimming and lower-casing (norm is PoolTitles)
GroupOf(norm, i) == {j \in 1..Len(pool) : norm[j] = norm[i]}

\* the position of the group of i the de-duplicator is to keep: the
\* greatest timestamp, and the earliest position among those that carry it
KeptOf(norm, i) ==
  LET G == GroupOf(norm, i)
      Newest == {j \in G : \A m \in G : pool[m].ts <= pool[j].ts}
  IN CHOOSE j \in Newest : \A m \in Newest : j <= m

\* C1: after the de-dup loop, of every group of pooled entries whose titles
\* are equal after trimming and lower-casing, seen holds exactly one entry:
\* the one with the greatest timestamp and, among several with that
\* timestamp, the one appended to the pool first.
C1_DedupKeepsNewestFirstSeen ==
  pc = "sort" =>
    LET norm == PoolTitles
        held == [n \in 1..Len(seen) |-> NormTitle(seen[n].v.title)]
    IN \A i \in 1..Len(pool) :
         LET Held == {n \in 1..Len(seen) : held[n] = norm[i]}
         IN /\ Cardinality(Held) = 1
            /\ \A n \in Held : seen[n].v = pool[KeptOf(norm, i)]

\* C1 witness: the de-dup loop ran on a pool where two different entries of
\* one group share the group's greatest timestamp, and an older one exists
C1_Witness ==
  /\ pc = "sort"
  /\ LET norm == PoolTitles
     IN \E i, j, m \in 1..Len(pool) :
          /\ i < j
          /\ norm[j] = norm[i] /\ norm[m] = norm[i]
          /\ pool[i].ts = pool[j].ts
          /\ pool[i] # pool[j]
          /\ pool[m].ts < pool[i].ts
          /\ KeptOf(norm, i) = i

\* every OutputItem of the result, bucket after bucket
AllOut == out.macro \o out.housing \o out.notables

\* C2: no two OutputItems, in the same bucket or in different buckets, have
\* titles that are identical after case-folding.
C2_NoDuplicateTitles ==
  \A i, j \in 1..Len(AllOut) :
    i # j => lower(AllOut[i].title) # lower(AllOut[j].title)

\* C2 witness: a finished run with an item in the result whose headline was
\* pooled twice in different case
C2_Witness ==
  /\ pc = "done"
  /\ \E i, j \in 1..Len(pool) :
       /\ pool[i].title # pool[j].title
       /\ lower(pool[i].title) = lower(pool[j].title)
       /\ \E n \in 1..Len(AllOut) : lower(AllOut[n].title) = lower(pool[i].title)


\* C3: every pooled item has a known timestamp ts with
\* now - window <= ts <= now; an entry dated later than now never reaches
\* the pool.
C3_PoolWithinWindow ==
  \A i \in 1..Len(pool) :
    Cutoff(now_ts) <= pool[i].ts /\ pool[i].ts <= now_ts

\* whether a keyword of kws occurs in the lower-cased title of the item x
\* or in its cleaned, lower-cased body
HasKeyword(kws, x) ==
  \E n \in 1..Len(kws) :
    \/ Contains(kws[n], lower(x.title))
    \/ Contains(kws[n], lower(_clean(_entry_body(x.e))))

\* the bucket the precedence macro, housing, notables gives the item x
ExpectedBucket(x) ==
  IF HasKeyword(KEYWORDS_101020_macro, x) THEN "macro"
  ELSE IF HasKeyword(KEYWORDS_101020_housing, x) THEN "housing"
  ELSE "notables"

Buckets == {"macro", "housing", "notables"}

\* how often the item x occurs in the list bucket
Occurrences(bucket, x) ==
  Cardinality({n \in 1..Len(bucket) :
                 bucket[n].title = x.title /\ bucket[n].url = x.link})

\* C4: after classification every deduplicated item is in exactly one
\* bucket: macro if a macro keyword occurs in its lower-cased title or
\* cleaned body, otherwise housing if a housing keyword occurs, otherwise
\* notables; an item matching both a macro and a housing keyword is macro.
C4_ClassifiedByPrecedence ==
  pc = "trim" =>
    \A i \in 1..Len(items) : \A b \in Buckets :
      Occurrences(out[b], items[i]) = IF b = ExpectedBucket(items[i]) THEN 1 ELSE 0

\* C4 witness: an item that matches a macro and a housing keyword has been
\* classified, and is in macro
C4_Witness ==
  /\ pc = "trim"
  /\ \E i \in 1..Len(items) :
       /\ HasKeyword(KEYWORDS_101020_macro, items[i])
       /\ HasKeyword(KEYWORDS_101020_housing, items[i])
       /\ Occurrences(out.macro, items[i]) = 1

\* C5: the run returns whatever sources fail, and when every source fails
\* the result is {macro: [], housing: [], notables: []}.
C5_AllFailedGivesEmpty ==
  (pc = "done" /\ failed = 1..NumSources) => out = EmptyOut

\* the matches of _NUM_PAT in the cleaned text of the item x, each stripped
MatchesOf(x) ==
  LET ms == NumFindAll(_clean(BodyOrTitle(x)))
  IN [n \in 1..Len(ms) |-> strip(ms[n])]

\* the positions of ms that no earlier position equals ignoring case
FirstOccurrences(ms) ==
  {p \in 1..Len(ms) : \A q \in 1..(p - 1) : lower(ms[q]) # lower(ms[p])}

\* the j-th smallest element of the set of numbers S
NthOf(S, j) == CHOOSE p \in S : Cardinality({q \in S : q <= p}) = j

\* the first 6 distinct matches of the item x in order of first occurrence
FirstDistinct(x) ==
  LET ms == MatchesOf(x)
      F == FirstOccurrences(ms)
  IN [j \in 1..Min(6, Cardinality(F)) |-> ms[NthOf(F, j)]]

\* the OutputItems of the result made from the item x
OutputsOf(x) ==
  {AllOut[n] : n \in {m \in 1..Len(AllOut) :
                        AllOut[m].title = x.title /\ AllOut[m].url = x.link}}

\* C6: the numbers field of every item lists at most 6 tokens, no two equal
\* ignoring case, which are the first distinct numeric matches of the text
\* in their order of first occurrence, joined by ", "; it is the empty
\* string when the text has no match.
C6_NumbersFirstSixDistinct ==
  \A i \in 1..Len(items) :
    LET x == items[i]
        toks == NumTokens(BodyOrTitle(x))
    IN /\ Len(toks) <= 6
       /\ \A a, b \in 1..Len(toks) : a # b => lower(toks[a]) # lower(toks[b])
       /\ toks = FirstDistinct(x)
       /\ \A o \in OutputsOf(x) :
            /\ o.numbers = Join(toks, <<",", " ">>)
            /\ MatchesOf(x) = <<>> => o.numbers = <<>>

\* C6 witness: the result holds an item whose text has more than 6 distinct
\* matches and a match repeated in another case
C6_Witness ==
  /\ pc = "done"
  /\ \E i \in 1..Len(items) :
       LET ms == MatchesOf(items[i])
       IN /\ Cardinality(FirstOccurrences(ms)) > 6
          /\ \E p, q \in 1..Len(ms) : ms[p] # ms[q] /\ lower(ms[p]) = lower(ms[q])
          /\ OutputsOf(items[i]) # {}

IsMacro(x) == BucketOf(x) = "macro"
IsHousing(x) == BucketOf(x) = "housing"
IsNotable(x) == BucketOf(x) = "notables"

\* the OutputItems of a list of items
StructureAll(s) == [n \in 1..Len(s) |-> Structure(s[n])]

\* C7: each returned bucket is the first min(n, max) items of the
\* newest-first sequence of the deduplicated items classified into it: its
\* length never exceeds its maximum, it is in non-increasing timestamp
\* order, and trimming removes only the oldest items.
C7_BucketsNewestFirstTrimmed ==
  pc = "done" =>
    /\ Len(items) = Len(seen)
    /\ \A n \in 1..Len(seen) : \E i \in 1..Len(items) : items[i] = seen[n].v
    /\ \A i, j \in 1..Len(items) : i < j => items[i].ts >= items[j].ts
    /\ out.macro = Take(StructureAll(SelectSeq(items, IsMacro)), limits[1])
    /\ out.housing = Take(StructureAll(SelectSeq(items, IsHousing)), limits[2])
    /\ out.notables = Take(StructureAll(SelectSeq(items, IsNotable)), limits[3])
    /\ Len(out.macro) <= limits[1]
    /\ Len(out.housing) <= limits[2]
    /\ Len(out.notables) <= limits[3]

\* C7 witness: a finished run in which a bucket with a maximum of one or
\* more was given more items, of different ages, than its maximum
C7_Witness ==
  /\ pc = "done"
  /\ LET ns == SelectSeq(items, IsNotable)
     IN /\ limits[3] >= 1
        /\ Len(ns) > limits[3]
        /\ ns[1].ts > ns[Len(ns)].ts
        /\ Len(out.notables) = limits[3]

\* the sources that did not fail, in the order of the fetch loop
RECURSIVE Successful(_)
Successful(n) ==
  IF n = 0 THEN <<>>
  ELSE IF n \in failed THEN Successful(n - 1)
  ELSE Append(Successful(n - 1), n)

\* C8: a source whose fetch or parse fails at any point contributes no
\* entry to the pool, not even an entry read before the failure: the pool
\* is what the sources that did not fail contribute.
C8_FailedSourceContributesNothing ==
  pc # "fetch" => pool = PoolOf(feeds, Successful(NumSources), Cutoff(now_ts))

\* the timestamp the order published, updated, created gives the entry e:
\* <<>> when it carries none of the three
ThreeKeyTime(e) ==
  IF e.published_parsed # <<>> THEN e.published_parsed
  ELSE IF e.updated_parsed # <<>> THEN e.updated_parsed
  ELSE e.created_parsed

\* C9: an entry's timestamp is its published time, else its updated time,
\* else its created time; hence an entry of a source that was read to the
\* end, with a title, a link and a first present time that is fresh, is in
\* the pool with that time.
C9_TimestampFromThreeKeys ==
  \A s \in 1..NumSources :
    (s < src /\ s \notin failed) =>
      \A n \in 1..Len(feeds[s].entries) :
        LET e == feeds[s].entries[n]
            st == ThreeKeyTime(e)
        IN ( /\ strip(GetText(e, "title")) # <<>>
             /\ strip(GetText(e, "link")) # <<>>
             /\ st # <<>>
             /\ st[1].valid
             /\ st[1].epoch >= Cutoff(now_ts) )
           => \E i \in 1..Len(pool) : pool[i].e = e /\ pool[i].ts = st[1].epoch

\* the orders in which the fetch loop can visit the sources
Orders ==
  {o \in [1..NumSources -> 1..NumSources] :
     \A a, b \in 1..NumSources : a # b => o[a] # o[b]}

\* C10 as stated: the result is the same whatever the order in which the
\* sources contribute their entries, entries with equal timestamps included.
C10_OrderIndependent ==
  pc = "done" => \A o \in Orders : Build(feeds, o, now_ts, limits) = out

\* no two pooled entries have the same timestamp
DistinctTimestamps ==
  \A i, j \in 1..Len(pool) : i # j => pool[i].ts # pool[j].ts

\* C10 amended: when no two pooled entries have equal timestamps, the result
\* is the same whatever the order in which the sources contribute.
C10_OrderIndependentDistinctTs ==
  (pc = "done" /\ DistinctTimestamps) =>
    \A o \in Orders : Build(feeds, o, now_ts, limits) = out

\* C10 witness: a finished run over a pool of distinct timestamps that holds
\* one headline twice, where another order of the sources gives another pool
C10_Witness ==
  /\ pc = "done"
  /\ DistinctTimestamps
  /\ \E i, j \in 1..Len(pool) :
       i # j /\ NormTitle(pool[i].title) = NormTitle(pool[j].title)
  /\ \E o \in Orders : PoolOf(feeds, o, Cutoff(now_ts)) # pool
  /\ AllOut # <<>>

----------------------------------------------------------------------------
(* updater/feeds.py: the configuration-driven pipeline                     *)
(*                                                                         *)
(* cfg is a record: keywords holds the lists cfg['keywords'][...] (<<>>    *)
(* for a missing list), and macro_sources, housing_sources and             *)
(* notables_sources hold, for each url of the list, what                   *)
(* feedparser.parse(url) yields: [raises, bozo, entries].                  *)

\* _clean_html(s)
_clean_html(s) == strip(StripTags(s))

\* the keys _parse_one looks at for the time of an entry, in its order
ParseOneTsKeys == <<"published_parsed", "updated_parsed", "created_parsed">>

\* the first key of ParseOneTsKeys that e carries, 0 when it carries none
ParseOneTsKey(e) ==
  LET Has == {n \in 1..Len(ParseOneTsKeys) : e[ParseOneTsKeys[n]] # <<>>}
  IN IF Has = {} THEN 0 ELSE CHOOSE n \in Has : \A m \in Has : n <= m

\* time.mktime rejects the struct_time _parse_one picked for e
ParseOneTsRaises(e) ==
  LET n == ParseOneTsKey(e) IN n # 0 /\ ~e[ParseOneTsKeys[n]][1].valid

\* "published_ts or 0"
PublishedTs(e) ==
  LET n == ParseOneTsKey(e)
  IN IF n = 0 THEN 0 ELSE mktime(e[ParseOneTsKeys[n]][1])

\* the dict _parse_one appends for the entry e.  Its field source, the
\* domain of the link or of the url, is not read by fetch_all and is left
\* out.
ParsedItem(e) ==
  [title |-> strip(GetText(e, "title")),
   summary |-> _clean_html(IF GetText(e, "summary") # <<>>
                           THEN GetText(e, "summary")
                           ELSE GetText(e, "description")),
   link |-> GetText(e, "link"),
   published_ts |-> PublishedTs(e)]

\* the loop of _parse_one over the entries es: its is the list items so far
RECURSIVE ParseEntries(_, _)
ParseEntries(es, its) ==
  IF es = <<>> THEN [items |-> its, raised |-> FALSE]
  ELSE IF ParseOneTsRaises(Head(es)) THEN [items |-> <<>>, raised |-> TRUE]
  ELSE ParseEntries(Tail(es), Append(its, ParsedItem(Head(es))))

\* d.entries[:20]
MaxEntriesParseOne == 20

\* _parse_one(url), f being what feedparser.parse(url) yields: an exception
\* (raised), [] for a bozo feed, the items of its first 20 entries otherwise
_parse_one(f) ==
  IF f.raises THEN [items |-> <<>>, raised |-> TRUE]
  ELSE IF f.bozo THEN [items |-> <<>>, raised |-> FALSE]
  ELSE ParseEntries(Take(f.entries, MaxEntriesParseOne), <<>>)

\* the built-in keyword lists of _classify
FALLBACK_housing ==
  << <<"m","o","r","t","g","a","g","e">>, <<"h","o","u","s","i","n","g">>, <<"h","o","m","e">>, <<"r","e","n","t">>, <<"p","e","r","m","i","t">>, <<"s","t","a","r","t","s">>,
     <<"c","a","s","e","-","s","h","i","l","l","e","r">>, <<"f","h","f","a">>, <<"c","m","b","s">>, <<"r","e","i","t">> >>

FALLBACK_macro ==
  << <<"f","e","d">>, <<"c","p","i">>, <<"p","c","e">>, <<"f","o","m","c">>, <<"t","r","e","a","s","u","r","y">>, <<"1","0","y">>,
     <<"1","0","-","y","e","a","r">>, <<"g","d","p">>, <<"p","a","y","r","o","l","l">> >>

\* has_any(keys) of _classify: any(k.lower() in t for k in (keys or []))
has_any(keys, t) == \E n \in 1..Len(keys) : Contains(lower(keys[n]), t)

\* _classify(cfg, title, summary)
_classify(c, title, summary) ==
  LET t == lower(title \o <<" ">> \o summary)
      kw == c.keywords
  IN IF has_any(kw.housing, t) THEN "housing"
     ELSE IF has_any(kw.macro, t) THEN "macro"
     ELSE IF has_any(kw.notables, t) THEN "notables"
     ELSE IF \E n \in 1..Len(FALLBACK_housing) : Contains(FALLBACK_housing[n], t)
     THEN "housing"
     ELSE IF \E n \in 1..Len(FALLBACK_macro) : Contains(FALLBACK_macro[n], t)
     THEN "macro"
     ELSE "notables"

\* the sections of fetch_all in the order of its outer loop, and the key
\* of the source list of each
Sections == <<"macro", "housing", "notables">>

SourcesOf(c, sec) ==
  IF sec = "macro" THEN c.macro_sources
  ELSE IF sec = "housing" THEN c.housing_sources
  ELSE c.notables_sources

\* the (section, url) pairs the two loops of fetch_all visit, in order
RECURSIVE JobsFrom(_, _)
JobsFrom(c, s) ==
  IF s > Len(Sections) THEN <<>>
  ELSE LET fs == SourcesOf(c, Sections[s])
       IN [u \in 1..Len(fs) |-> [sec |-> Sections[s], feed |-> fs[u]]]
            \o JobsFrom(c, s + 1)

Jobs(c) == JobsFrom(c, 1)

\* the bucket fetch_all appends an item of class cls to when it comes from a
\* url of the section sec: target = sec, replaced by cls when
\* "sec != 'notables' and cls != sec"
Target(sec, cls) ==
  IF sec # "notables" /\ cls # sec THEN cls ELSE sec

\* the loop "for it in _parse_one(url)" over the items its of a url of the
\* section sec, appending to the dict b
RECURSIVE PlaceItems(_, _, _, _)
PlaceItems(c, sec, its, b) ==
  IF its = <<>> THEN b
  ELSE LET it == Head(its)
           target == Target(sec, _classify(c, it.title, it.summary))
       IN PlaceItems(c, sec, Tail(its), [b EXCEPT ![target] = Append(@, it)])

\* sorted(bucket, key=published_ts, reverse=True): the list s with x put
\* after the items at least as new (the sort is stable)
InsertByPublished(s, x) ==
  LET n == Cardinality({j \in 1..Len(s) : s[j].published_ts >= x.published_ts})
  IN SubSeq(s, 1, n) \o <<x>> \o SubSeq(s, n + 1, Len(s))

RECURSIVE SortedByPublished(_)
SortedByPublished(s) ==
  IF s = <<>> THEN <<>>
  ELSE InsertByPublished(SortedByPublished(SubSeq(s, 1, Len(s) - 1)), s[Len(s)])

\* the de-dup loop of fetch_all over a sorted bucket: an item with an empty
\* title, or with a title already kept (stripped, lower-cased), is skipped
RECURSIVE KeepFirstTitles(_, _)
KeepFirstTitles(s, kept) ==
  IF s = <<>> THEN kept
  ELSE LET t == lower(strip(Head(s).title))
       IN IF t = <<>> \/ \E j \in 1..Len(kept) : lower(strip(kept[j].title)) = t
          THEN KeepFirstTitles(Tail(s), kept)
          ELSE KeepFirstTitles(Tail(s), Append(kept, Head(s)))

DedupBucket(s) == KeepFirstTitles(SortedByPublished(s), <<>>)

\* build_101020_from_rss of updater/main.py is not running
MainIdle ==
  /\ feeds = <<>>
  /\ now_ts = 0
  /\ limits = DefaultLimits
  /\ pc = "off"
  /\ src = 0
  /\ failed = {}
  /\ pool = <<>>
  /\ seen = <<>>
  /\ items = <<>>
  /\ out = EmptyOut

\* fetch_all(c) is called: buckets = {'macro':[], 'housing':[], 'notables':[]}
StartFetchAll(c) ==
  /\ MainIdle
  /\ cfg = c
  /\ fpc = "fetch"
  /\ job = 1
  /\ buckets = EmptyOut

\* one iteration of "for url in cfg.get(key, [])": the items of the url are
\* classified and appended; when _parse_one raises the url is skipped.  The
\* loops end when no (section, url) is left.
FetchUrl ==
  /\ fpc = "fetch"
  /\ IF job > Len(Jobs(cfg))
     THEN /\ fpc' = "dedup"
          /\ UNCHANGED <<job, buckets>>
     ELSE LET j == Jobs(cfg)[job]
              r == _parse_one(j.feed)
          IN /\ buckets' = IF r.raised THEN buckets
                           ELSE PlaceItems(cfg, j.sec, r.items, buckets)
             /\ job' = job + 1
             /\ fpc' = "fetch"
  /\ UNCHANGED <<cfg, feeds, now_ts, limits, pc, src, failed, pool, seen, items, out>>

\* the loop "for k in buckets": each bucket newest first, one item per title
DedupBuckets ==
  /\ fpc = "dedup"
  /\ buckets' = [macro |-> DedupBucket(buckets.macro),
                 housing |-> DedupBucket(buckets.housing),
                 notables |-> DedupBucket(buckets.notables)]
  /\ fpc' = "done"
  /\ UNCHANGED <<cfg, job, feeds, now_ts, limits, pc, src, failed, pool, seen, items, out>>

NextFeeds == FetchUrl \/ DedupBuckets

----------------------------------------------------------------------------
(* Inputs of fetch_all                                                     *)

\* the most entries the three source lists hold together
MaxItems == 2

\* entries of the feeds: "Fed" is macro, "Rent" housing and "Zoo" notables
\* by the built-in lists of _classify
EntriesFeeds ==
  { \* "Fed", published at 3
    Entry(<<"F","e","d">>, <<"h","t","t","p",":","/","/","a">>, <<>>, St(3), <<>>, <<>>),
    \* "Rent", updated at 2
    Entry(<<"R","e","n","t">>, <<"h","t","t","p",":","/","/","b">>, <<>>, <<>>, St(2), <<>>),
    \* " ZOO", created at 1
    Entry(<<" ","Z","O","O">>, <<"h","t","t","p",":","/","/","c">>, <<>>, <<>>, <<>>, St(1)),
    \* "Fed" with the summary "<b>rent</b>", published at 4
    Entry(<<"F","e","d">>, <<"h","t","t","p",":","/","/","d">>, << <<"<","b",">","r","e","n","t","<","/","b",">">> >>, St(4), <<>>, <<>>),
    \* "Zoo", with a published date time.mktime rejects
    Entry(<<"Z","o","o">>, <<"h","t","t","p",":","/","/","e">>, <<>>, BadSt, <<>>, <<>>) }

\* what feedparser.parse yields for a url: an exception, a bozo feed, a feed
FeedModes == {"ok", "bozo", "raises"}

FeedOf(es, mode) ==
  [raises |-> mode = "raises", bozo |-> mode = "bozo", entries |-> es]

\* cfg['keywords']: absent, or lists written in upper and lower case
KeywordsFeeds ==
  { [housing |-> <<>>, macro |-> <<>>, notables |-> <<>>],
    [housing |-> <<>>, macro |-> << <<"Z","O","O">> >>, notables |-> << <<"f","e","d">> >>] }

\* a configuration with one url in each source list: the entries es split
\* at c[1] and c[2] among the three urls, m[i] being the mode of url i
ConfigOf(kw, es, c, m) ==
  [keywords |-> kw,
   macro_sources |-> <<FeedOf(SubSeq(es, 1, c[1]), m[1])>>,
   housing_sources |-> <<FeedOf(SubSeq(es, c[1] + 1, c[2]), m[2])>>,
   notables_sources |-> <<FeedOf(SubSeq(es, c[2] + 1, Len(es)), m[3])>>]

InitFeeds ==
  \E es \in SeqsUpTo(EntriesFeeds, MaxItems), kw \in KeywordsFeeds :
    \E c \in Cuts(Len(es)), m \in [1..Len(Sections) -> FeedModes] :
      StartFetchAll(ConfigOf(kw, es, c, m))

SpecFeeds == InitFeeds /\ [][NextFeeds]_vars

----------------------------------------------------------------------------
(* fetch_all: the bucket of an item                                        *)

\* the items fetch_all has placed, each with the bucket that holds it
Placed ==
  UNION {{[bucket |-> b, item |-> buckets[b][n]] : n \in 1..Len(buckets[b])} :
           b \in Buckets}

\* C11: in fetch_all the bucket of an item is a function of its title and
\* summary: two items with the same title and the same summary are never
\* held by different buckets, whichever source list they were fetched from.
C11_BucketFromTitleAndSummary ==
  \A p, q \in Placed :
    (p.item.title = q.item.title /\ p.item.summary = q.item.summary)
      => p.bucket = q.bucket

====
